---- MODULE Spec2Model ----
(***************************************************************************)
(* Model of main.py: the POST /extract handler (extract_dwg) and the       *)
(* header sniffer (detect_file_format) of the DWG/DXF extractor service.   *)
(*                                                                         *)
(* Bytes are integers 0..255, byte strings and decoded text are sequences  *)
(* of them.  The external parser (ezdxf.readfile, the model-space          *)
(* iterator, attribute access on an entity) is the environment: its        *)
(* outcomes are chosen nondeterministically.                               *)
(***************************************************************************)
EXTENDS Integers, Sequences, FiniteSets, TLC

\* ------------------------------------------------------------- bounds
\* Uploads are all byte strings up to MaxLen over ByteAlphabet, plus Samples.
MaxLen == 2
\* The loaded document holds at most MaxEntities model-space entities.
MaxEntities == 2

\* ------------------------------------------------- program constants
HeaderLen == 100
TextLen == 50
CodeLen == 6

\* ------------------------------------------------------------- bytes
\* 'A' 'C' '0' '\n' and one non-ASCII byte.
ByteAlphabet == {65, 67, 48, 10, 255}

AC1032 == <<65, 67, 49, 48, 51, 50>>
AC1027 == <<65, 67, 49, 48, 50, 55>>
AC1024 == <<65, 67, 49, 48, 50, 52>>
AC1021 == <<65, 67, 49, 48, 50, 49>>
AC1018 == <<65, 67, 49, 48, 49, 56>>
\* A version code that is not in the table (AutoCAD 2000), and a header
\* whose code bytes are not all ASCII.
AC1015 == <<65, 67, 49, 48, 49, 53>>
ACbinary == <<65, 67, 255, 48, 49, 53, 50>>

\* b"AC", "0\n", "SECTION", "HEADER"
MarkerAC == <<65, 67>>
TokZeroNl == <<48, 10>>
TokSECTION == <<83, 69, 67, 84, 73, 79, 78>>
TokHEADER == <<72, 69, 65, 68, 69, 82>>

Min(a, b) == IF a < b THEN a ELSE b

Take(s, n) == SubSeq(s, 1, Min(n, Len(s)))

StartsWith(s, p) == Len(s) >= Len(p) /\ SubSeq(s, 1, Len(p)) = p

Contains(s, t) ==
    \E i \in 1..(Len(s) - Len(t) + 1) : SubSeq(s, i, i + Len(t) - 1) = t

\* bytes.decode("ascii"): raises on any byte >= 128.
DecodeAsciiStrict(b) ==
    IF \A i \in 1..Len(b) : b[i] < 128
    THEN [ok |-> TRUE, text |-> b]
    ELSE [ok |-> FALSE, text |-> <<>>]

IsAsciiByte(x) == x < 128

\* bytes.decode("ascii", errors="ignore"): bytes >= 128 are dropped.
DecodeAsciiIgnore(b) == SelectSeq(b, IsAsciiByte)

\* ---------------------------------------------------- detect_file_format
IsDxf(header) ==
    LET d == DecodeAsciiStrict(Take(header, TextLen))
    IN  IF d.ok
        THEN Contains(d.text, TokZeroNl) \/ Contains(d.text, TokSECTION)
                 \/ Contains(d.text, TokHEADER)
        ELSE FALSE

IsDwgMutant(header) == StartsWith(header, <<65, 67, 49>>)

IsDwg(header) == StartsWith(header, MarkerAC)

VersionsMutant ==
    (AC1032 :> "AutoCAD 2018-2021") @@ (AC1027 :> "AutoCAD 2010-2012")
        @@ (AC1024 :> "AutoCAD 2010-2012") @@ (AC1021 :> "AutoCAD 2007-2009")
        @@ (AC1018 :> "AutoCAD 2004-2006")

Versions ==
    (AC1032 :> "AutoCAD 2018-2021") @@ (AC1027 :> "AutoCAD 2013-2017")
        @@ (AC1024 :> "AutoCAD 2010-2012") @@ (AC1021 :> "AutoCAD 2007-2009")
        @@ (AC1018 :> "AutoCAD 2004-2006")

\* A version string is either a fixed text (name) or a passed-through code
\* (raw, the decoded characters).
VersionUnknown == [name |-> "Unknown", raw |-> <<>>]

\* versions.get(version_code, version_code)
VersionGet(code) ==
    IF code \in DOMAIN Versions
    THEN [name |-> Versions[code], raw |-> <<>>]
    ELSE [name |-> "", raw |-> code]

detect_file_format(bytes) ==
    LET header == Take(bytes, HeaderLen)
        is_dxf == IsDxf(header)
        is_dwg == IsDwg(header)
        version == IF is_dwg
                   THEN VersionGet(DecodeAsciiIgnore(Take(header, CodeLen)))
                   ELSE VersionUnknown
    IN  [is_dxf |-> is_dxf, is_dwg |-> is_dwg, version |-> version,
         file_size |-> Len(bytes)]

NoFileInfo ==
    [is_dxf |-> FALSE, is_dwg |-> FALSE, version |-> [name |-> "", raw |-> <<>>],
     file_size |-> 0]

\* ------------------------------------------------------------ uploads
ShortUploads == UNION {[1..n -> ByteAlphabet] : n \in 0..MaxLen}

Tails == {<<>>, <<255>>, TokZeroNl, TokSECTION, TokHEADER}

Samples ==
    {code \o tail :
        code \in {AC1032, AC1027, AC1024, AC1021, AC1018, AC1015, ACbinary},
        tail \in Tails}
    \cup {TokSECTION, <<48, 10, 255>>}

Uploads == ShortUploads \cup Samples

\* str(e) of the exceptions the environment raises.
ErrTexts == {"Input/output error", "Invalid or missing attribute"}

\* ------------------------------------------------------------ entities
Supported ==
    {"LINE", "CIRCLE", "ARC", "TEXT", "MTEXT", "LWPOLYLINE", "POLYLINE", "SPLINE"}

Tags == Supported \cup {"INSERT"}

Layers == {"0"}

Range(s) == {s[i] : i \in 1..Len(s)}

EmptyDict == [k \in {} |-> 0]

DictGet(d, k, default) == IF k \in DOMAIN d THEN d[k] ELSE default

DictPut(d, k, v) == [x \in DOMAIN d \cup {k} |-> IF x = k THEN v ELSE d[x]]

EntityFieldsMutant(kind) ==
    CASE kind = "LINE" -> <<"start", "end", "length">>
      [] kind = "CIRCLE" -> <<"center", "radius">>
      [] kind = "ARC" -> <<"center", "radius", "start_angle", "end_angle">>
      [] kind = "TEXT" -> <<"text", "insert", "height">>
      [] kind = "MTEXT" -> <<"text", "insert">>
      [] kind = "LWPOLYLINE" -> <<"points", "closed", "point_count">>
      [] kind = "POLYLINE" -> <<"points", "closed", "point_count">>
      [] kind = "SPLINE" -> <<"degree", "control_point_count">>
      [] OTHER -> <<>>

\* The keys of the dict built by each branch of the dispatch, in the order
\* their values are read from the entity.
EntityFields(kind) ==
    CASE kind = "LINE" -> <<"start", "end", "length">>
      [] kind = "CIRCLE" -> <<"center", "radius", "area">>
      [] kind = "ARC" -> <<"center", "radius", "start_angle", "end_angle">>
      [] kind = "TEXT" -> <<"text", "insert", "height">>
      [] kind = "MTEXT" -> <<"text", "insert">>
      [] kind = "LWPOLYLINE" -> <<"points", "closed", "point_count">>
      [] kind = "POLYLINE" -> <<"points", "closed", "point_count">>
      [] kind = "SPLINE" -> <<"degree", "control_point_count">>
      [] OTHER -> <<>>

ExtractEntityMutant(kind, failAt) ==
    IF kind \in Supported
    THEN IF failAt \in 1..Len(EntityFields(kind))
         THEN [raised |-> TRUE, data |-> EmptyDict]
         ELSE [raised |-> FALSE,
               data |-> [f \in Range(EntityFields(kind)) |-> "value"]]
    ELSE [raised |-> TRUE, data |-> EmptyDict]

\* The try block of the loop body: the dispatch on kind.  Reading field
\* number failAt of the entity raises (0: nothing raises); the dict is
\* assigned to entity_data only once every value has been read.
ExtractEntity(kind, failAt) ==
    IF kind \in Supported
    THEN IF failAt \in 1..Len(EntityFields(kind))
         THEN [raised |-> TRUE, data |-> EmptyDict]
         ELSE [raised |-> FALSE,
               data |-> [f \in Range(EntityFields(kind)) |-> "value"]]
    ELSE [raised |-> FALSE, data |-> [f \in {"type"} |-> kind]]

StatsIncrMutant(stats, kind) == DictPut(stats, kind, 1)

\* entity_stats[kind] = entity_stats.get(kind, 0) + 1
StatsIncr(stats, kind) == DictPut(stats, kind, DictGet(stats, kind, 0) + 1)

\* ----------------------------------------------------------- responses
NoResponse ==
    [status |-> 0, error |-> "", message |-> <<>>, suggestion |-> "",
     detected_format |-> "", detected_version |-> [name |-> "", raw |-> <<>>],
     how_to_convert |-> FALSE, success |-> FALSE, file_size_bytes |-> 0,
     total_entities |-> 0, entity_statistics |-> EmptyDict, elements |-> <<>>]

\* HTTPException(status, detail); message holds the pieces of text the
\* detail is put together from.
HttpError(status, error, message, suggestion) ==
    [NoResponse EXCEPT !.status = status, !.error = error,
                       !.message = message, !.suggestion = suggestion]

\* except Exception as e: raise HTTPException(500, f"Error interno: {str(e)}")
InternalError(text) == HttpError(500, "", <<"Error interno: ", text>>, "")

DwgRejection(info) ==
    [NoResponse EXCEPT !.status = 400, !.error = "Archivo DWG no soportado",
                       !.message = <<"Este servicio solo acepta archivos DXF">>,
                       !.detected_format = "DWG",
                       !.detected_version = info.version,
                       !.how_to_convert = TRUE]

Success(info, res, stats) ==
    [NoResponse EXCEPT !.status = 200, !.success = TRUE,
                       !.file_size_bytes = info.file_size,
                       !.total_entities = Len(res),
                       !.entity_statistics = stats,
                       !.elements = res]

IsEmptyUploadMutant(c) == FALSE

\* len(content) == 0
IsEmptyUpload(c) == Len(c) = 0

\* file_info["is_dwg"] and not file_info["is_dxf"]
RejectDwg(info) == info.is_dwg /\ ~info.is_dxf

\* ---------------------------------------------------------- file system
NoPath == "None"

TmpName == "/tmp/tmpq1w2e3.dxf"

\* finally: if temp_path and os.path.exists(temp_path): os.unlink(temp_path)
Finally(path, files) ==
    IF path # NoPath /\ path \in files THEN files \ {path} ELSE files

\* ---------------------------------------------------------------- state
VARIABLES
    pc,            \* position of the handler
    file,          \* the request's upload: [present, body]
    content,       \* bytes returned by file.read()
    temp_path,     \* the handler's temp_path local
    disk,          \* temporary files that exist
    created,       \* temporary files NamedTemporaryFile has created
    file_info,     \* result of detect_file_format
    docLen,        \* number of model-space entities of the loaded document
    idx,           \* entities the loop has taken from the iterator
    results,       \* the handler's results list
    entity_stats,  \* the handler's entity_stats dict
    response,      \* the response sent to the caller
    detectCalled,  \* detect_file_format has been called
    parserCalled,  \* ezdxf.readfile has been called
    loadOutcome,   \* how ezdxf.readfile ended
    seen,          \* tag -> number of entities the loop body has run for
    origin,        \* tags of the entities the records of results came from
    skipped,       \* entities whose field extraction raised
    raisedAt,      \* where entities raised: sequence of "dxftype"/"layer"/"field"
    unexpected     \* str(e) of the exception caught by "except Exception", or ""

vars ==
    <<pc, file, content, temp_path, disk, created, file_info, docLen, idx,
      results, entity_stats, response, detectCalled, parserCalled, loadOutcome,
      seen, origin, skipped, raisedAt, unexpected>>

locals == <<docLen, idx, results, entity_stats>>

history == <<seen, origin, skipped, raisedAt>>

Init ==
    /\ pc = "idle"
    /\ file = [present |-> FALSE, body |-> <<>>]
    /\ content = <<>>
    /\ temp_path = NoPath
    /\ disk = {}
    /\ created = {}
    /\ file_info = NoFileInfo
    /\ docLen = 0
    /\ idx = 0
    /\ results = <<>>
    /\ entity_stats = EmptyDict
    /\ response = NoResponse
    /\ detectCalled = FALSE
    /\ parserCalled = FALSE
    /\ loadOutcome = "none"
    /\ seen = [t \in Tags |-> 0]
    /\ origin = <<>>
    /\ skipped = 0
    /\ raisedAt = <<>>
    /\ unexpected = ""

\* Leaving the try statement with a response: "except HTTPException: raise"
\* and a return keep the response, then the finally clause runs.
Exit(resp) ==
    /\ pc' = "responded"
    /\ response' = resp
    /\ disk' = Finally(temp_path, disk)
    /\ unexpected' = unexpected

\* Leaving the try statement with any other exception: "except Exception"
\* answers 500, then the finally clause runs.
ExitUnexpected(text) ==
    /\ pc' = "responded"
    /\ response' = InternalError(text)
    /\ disk' = Finally(temp_path, disk)
    /\ unexpected' = text

\* POST /extract without a file part: raised before the try statement.
ReceiveNoFile ==
    /\ pc = "idle"
    /\ pc' = "responded"
    /\ response' = HttpError(400, "", <<"No se recibio ningun archivo">>, "")
    /\ UNCHANGED <<file, content, temp_path, disk, created, file_info, locals,
                   detectCalled, parserCalled, loadOutcome, history, unexpected>>

\* POST /extract with a file part.
Receive(body) ==
    /\ pc = "idle"
    /\ file' = [present |-> TRUE, body |-> body]
    /\ pc' = "received"
    /\ UNCHANGED <<content, temp_path, disk, created, file_info, locals,
                   response, detectCalled, parserCalled, loadOutcome, history,
                   unexpected>>

\* with tempfile.NamedTemporaryFile(delete=False, suffix=".dxf") as tmp
OpenTemp ==
    /\ pc = "received"
    /\ disk' = disk \cup {TmpName}
    /\ created' = created \cup {TmpName}
    /\ pc' = "opened"
    /\ UNCHANGED <<file, content, temp_path, file_info, locals, response,
                   detectCalled, parserCalled, loadOutcome, history, unexpected>>

\* await file.read() raises.
UploadReadFails(text) ==
    /\ pc = "opened"
    /\ ExitUnexpected(text)
    /\ UNCHANGED <<file, content, temp_path, created, file_info, locals,
                   detectCalled, parserCalled, loadOutcome, history>>

\* await file.read() returns no bytes.
RejectEmpty ==
    /\ pc = "opened"
    /\ IsEmptyUpload(file.body)
    /\ content' = file.body
    /\ Exit(HttpError(400, "", <<"El archivo esta vacio">>, ""))
    /\ UNCHANGED <<file, temp_path, created, file_info, locals,
                   detectCalled, parserCalled, loadOutcome, history>>

\* await file.read() returns bytes; tmp.write(content); temp_path = tmp.name
Persist ==
    /\ pc = "opened"
    /\ ~IsEmptyUpload(file.body)
    /\ content' = file.body
    /\ temp_path' = TmpName
    /\ pc' = "persisted"
    /\ UNCHANGED <<file, disk, created, file_info, locals, response,
                   detectCalled, parserCalled, loadOutcome, history, unexpected>>

\* file_info = detect_file_format(temp_path)
Classify ==
    /\ pc = "persisted"
    /\ file_info' = detect_file_format(content)
    /\ detectCalled' = TRUE
    /\ pc' = "classified"
    /\ UNCHANGED <<file, content, temp_path, disk, created, locals, response,
                   parserCalled, loadOutcome, history, unexpected>>

\* return JSONResponse(status_code=400, ...) for a binary drawing
RejectDwgFile ==
    /\ pc = "classified"
    /\ RejectDwg(file_info)
    /\ Exit(DwgRejection(file_info))
    /\ UNCHANGED <<file, content, temp_path, created, file_info, locals,
                   detectCalled, parserCalled, loadOutcome, history>>

\* doc = ezdxf.readfile(temp_path) returns a document of n entities.
ReadFileOk(n) ==
    /\ pc = "classified"
    /\ ~RejectDwg(file_info)
    /\ parserCalled' = TRUE
    /\ loadOutcome' = "ok"
    /\ docLen' = n
    /\ idx' = 0
    /\ results' = <<>>
    /\ entity_stats' = EmptyDict
    /\ pc' = "loaded"
    /\ UNCHANGED <<file, content, temp_path, disk, created, file_info, response,
                   detectCalled, history, unexpected>>

\* ezdxf.readfile raises DXFStructureError.
ReadFileStructureError(text) ==
    /\ pc = "classified"
    /\ ~RejectDwg(file_info)
    /\ parserCalled' = TRUE
    /\ loadOutcome' = "structure"
    /\ Exit(HttpError(400, "Archivo DXF corrupto o invalido", <<text>>,
                      "Intenta guardar el archivo nuevamente desde AutoCAD"))
    /\ UNCHANGED <<file, content, temp_path, created, file_info, locals,
                   detectCalled, history>>

\* ezdxf.readfile raises any other exception.
ReadFileGenericError(text) ==
    /\ pc = "classified"
    /\ ~RejectDwg(file_info)
    /\ parserCalled' = TRUE
    /\ loadOutcome' = "generic"
    /\ Exit(HttpError(400, "No se pudo leer el archivo", <<text>>,
                      "Asegurate de que sea un archivo DXF valido (ASCII, no Binary)"))
    /\ UNCHANGED <<file, content, temp_path, created, file_info, locals,
                   detectCalled, history>>

\* The loop takes an entity, and entity.dxftype() or entity.dxf.layer
\* raises: both are read outside the loop body's try.
EntityHeaderRaises(where, text) ==
    /\ pc = "loaded"
    /\ idx < docLen
    /\ idx' = idx + 1
    /\ raisedAt' = Append(raisedAt, where)
    /\ ExitUnexpected(text)
    /\ UNCHANGED <<file, content, temp_path, created, file_info, docLen, results,
                   entity_stats, detectCalled, parserCalled, loadOutcome, seen,
                   origin, skipped>>

\* One pass of the loop body for an entity whose tag and layer resolve;
\* reading its field number failAt raises (0: none does).
ProcessEntity(tag, layer, failAt) ==
    /\ pc = "loaded"
    /\ idx < docLen
    /\ idx' = idx + 1
    /\ seen' = [seen EXCEPT ![tag] = @ + 1]
    /\ entity_stats' = StatsIncr(entity_stats, tag)
    /\ LET r == ExtractEntity(tag, failAt)
       IN  IF r.raised
           THEN /\ skipped' = skipped + 1
                /\ raisedAt' = Append(raisedAt, "field")
                /\ UNCHANGED <<results, origin>>
           ELSE /\ results' = Append(results,
                                     [kind |-> tag, layer |-> layer, data |-> r.data])
                /\ origin' = Append(origin, tag)
                /\ UNCHANGED <<skipped, raisedAt>>
    /\ UNCHANGED <<pc, file, content, temp_path, disk, created, file_info, docLen,
                   response, detectCalled, parserCalled, loadOutcome, unexpected>>

\* The iterator is exhausted: return the result.
Respond ==
    /\ pc = "loaded"
    /\ idx = docLen
    /\ Exit(Success(file_info, results, entity_stats))
    /\ UNCHANGED <<file, content, temp_path, created, file_info, locals,
                   detectCalled, parserCalled, loadOutcome, history>>

Next ==
    \/ ReceiveNoFile
    \/ \E body \in Uploads : Receive(body)
    \/ OpenTemp
    \/ \E text \in ErrTexts : UploadReadFails(text)
    \/ RejectEmpty
    \/ Persist
    \/ Classify
    \/ RejectDwgFile
    \/ \E n \in 0..MaxEntities : ReadFileOk(n)
    \/ \E text \in ErrTexts : ReadFileStructureError(text)
    \/ \E text \in ErrTexts : ReadFileGenericError(text)
    \/ \E where \in {"dxftype", "layer"}, text \in ErrTexts :
           EntityHeaderRaises(where, text)
    \/ \E tag \in Tags, layer \in Layers :
           \E failAt \in 0..Len(EntityFields(tag)) : ProcessEntity(tag, layer, failAt)
    \/ Respond

Spec == Init /\ [][Next]_vars

\* --------------------------------------------------------------- claims

\* C1: once the response is produced, no temporary file created for the
\* request still exists on disk, whatever exit path the request took.
C1_NoTempFileRemains == pc = "responded" => created \cap disk = {}

\* C2: in a loaded document where exactly one entity raises while it is
\* processed (resolving its type tag, its layer, or reading its fields), the
\* request answers 200 with one element per other entity.
C2_EntityFailureIsLocal ==
    (pc = "responded" /\ loadOutcome = "ok" /\ Len(raisedAt) = 1)
        => /\ response.status = 200
           /\ Len(response.elements) = docLen - 1

\* C3 as stated: every non-empty upload whose header starts with "AC" is
\* answered 400 with the conversion instructions and never reaches the
\* parser, whatever bytes follow the marker.
C3_MarkerAlwaysRejected ==
    (pc = "responded" /\ content # <<>> /\ StartsWith(content, MarkerAC))
        => /\ response.status = 400
           /\ response.detected_format = "DWG"
           /\ response.how_to_convert
           /\ ~parserCalled

\* C3 amended: a non-empty upload whose header starts with "AC" and whose
\* first 50 bytes are not ASCII text containing "0\n", "SECTION" or "HEADER"
\* never reaches the parser and is answered 400 with the conversion
\* instructions and the detected version.
C3_BinaryMarkerRejected ==
    LET head == SubSeq(content, 1, Min(50, Len(content)))
        isText == /\ \A i \in 1..Len(head) : head[i] <= 127
                  /\ \/ Contains(head, <<48, 10>>)
                     \/ Contains(head, <<83, 69, 67, 84, 73, 79, 78>>)
                     \/ Contains(head, <<72, 69, 65, 68, 69, 82>>)
    IN  (content # <<>> /\ StartsWith(content, <<65, 67>>) /\ ~isText)
            => /\ ~parserCalled
               /\ pc = "responded"
                     => /\ response.status = 400
                        /\ response.detected_format = "DWG"
                        /\ response.detected_version = file_info.version
                        /\ response.how_to_convert

C3_Witness ==
    /\ pc = "responded"
    /\ content = AC1027 \o <<255>>
    /\ response.status = 400
    /\ response.detected_format = "DWG"
    /\ ~parserCalled

\* C4: a zero-byte upload is answered 400 once it has been read, and neither
\* detect_file_format nor ezdxf.readfile is ever called for it.
C4_EmptyUploadShortCircuits ==
    (file.present /\ file.body = <<>>)
        => /\ ~detectCalled
           /\ ~parserCalled
           /\ (pc = "responded" /\ unexpected = "") => response.status = 400

C4_Witness ==
    /\ pc = "responded"
    /\ file.present
    /\ file.body = <<>>
    /\ unexpected = ""
    /\ response.status = 400

\* C5: when a stage raises an exception that is not one of the handler's own
\* client-error responses, the request ends with status 500 and the text of
\* that exception does not appear in the response body.
C5_NoInternalTextInBody ==
    (pc = "responded" /\ unexpected # "")
        => /\ response.status = 500
           /\ \A i \in 1..Len(response.message) : response.message[i] # unexpected

\* C6: a generic loader failure is answered 422 with a suggestion, a
\* structural loader failure 400.
C6_LoaderFailuresDistinguished ==
    pc = "responded"
        => /\ loadOutcome = "generic"
                 => (response.status = 422 /\ response.suggestion # "")
           /\ loadOutcome = "structure" => response.status = 400

\* C7 as stated: the version is a function of the header alone; a header
\* starting with "AC" gives the table entry of its 6-byte code, and a code
\* that is not in the table is returned as exactly the 6 header bytes; any
\* other header gives "Unknown".
C7_UnknownCodeVerbatim ==
    LET code == SubSeq(content, 1, Min(6, Len(content)))
        known == {AC1032, AC1027, AC1024, AC1021, AC1018}
    IN  (detectCalled /\ StartsWith(content, <<65, 67>>) /\ Len(content) >= 6
             /\ code \notin known)
            => file_info.version = [name |-> "", raw |-> code]

\* C7 amended: the version is a function of the header alone, whatever the
\* parser does later: a header starting with "AC" gives the table entry of
\* its first six bytes, and a code that is not in the table is returned as
\* those bytes with every non-ASCII byte dropped (so unchanged when all are
\* ASCII); any other header gives "Unknown", and no response is produced for
\* it before the parser has been called.
C7_VersionFromHeader ==
    LET code == SubSeq(content, 1, Min(6, Len(content)))
        v == file_info.version
        ascii == {i \in 1..Len(code) : code[i] <= 127}
    IN  detectCalled =>
            IF StartsWith(content, <<65, 67>>)
            THEN /\ code = AC1032 => v = [name |-> "AutoCAD 2018-2021", raw |-> <<>>]
                 /\ code = AC1027 => v = [name |-> "AutoCAD 2013-2017", raw |-> <<>>]
                 /\ code = AC1024 => v = [name |-> "AutoCAD 2010-2012", raw |-> <<>>]
                 /\ code = AC1021 => v = [name |-> "AutoCAD 2007-2009", raw |-> <<>>]
                 /\ code = AC1018 => v = [name |-> "AutoCAD 2004-2006", raw |-> <<>>]
                 /\ code \notin {AC1032, AC1027, AC1024, AC1021, AC1018}
                       => /\ v.name = ""
                          /\ Len(v.raw) = Cardinality(ascii)
                          /\ \A i \in 1..Len(v.raw) : v.raw[i] <= 127
                          /\ ascii = 1..Len(code) => v.raw = code
            ELSE /\ v = [name |-> "Unknown", raw |-> <<>>]
                 /\ ~parserCalled => response.status = 0

C7_Witness ==
    /\ pc = "responded"
    /\ content = ACbinary
    /\ file_info.version = [name |-> "", raw |-> <<65, 67, 48, 49, 53>>]
    /\ response.detected_version = file_info.version

\* C8 as stated: in a 200 response every record of elements has a kind in
\* the supported set; entities of any other type are omitted.
C8_OnlySupportedKinds ==
    (pc = "responded" /\ response.status = 200)
        => \A i \in 1..Len(response.elements) :
               response.elements[i].kind \in
                   {"LINE", "CIRCLE", "ARC", "TEXT", "MTEXT", "LWPOLYLINE",
                    "POLYLINE", "SPLINE"}

\* C8 amended: in a 200 response an entity whose type tag is outside the
\* supported set is not omitted: each one traversed has exactly one record
\* in elements, and that record's data is {"type": kind} only.
C8_UnsupportedEmittedAsStub ==
    LET els == response.elements
        supported == {"LINE", "CIRCLE", "ARC", "TEXT", "MTEXT", "LWPOLYLINE",
                      "POLYLINE", "SPLINE"}
    IN  (pc = "responded" /\ response.status = 200)
            => /\ \A k \in Tags \ supported :
                      Cardinality({i \in 1..Len(els) : els[i].kind = k}) = seen[k]
               /\ \A i \in 1..Len(els) :
                      els[i].kind \notin supported
                          => els[i].data = [f \in {"type"} |-> els[i].kind]

C8_Witness ==
    /\ pc = "responded"
    /\ response.status = 200
    /\ Len(response.elements) = 2
    /\ response.elements[1].kind = "INSERT"
    /\ response.elements[2].kind = "LINE"

\* C9: in a 200 response the key set of each element's data is fixed by its
\* kind (the full field set of a supported kind, {"type"} mapped to the kind
\* otherwise), never empty or partial, and each element's kind is the type
\* tag of the entity it came from.
C9_DataShapeFollowsKind ==
    LET els == response.elements
        keys(k) ==
            CASE k = "LINE" -> {"start", "end", "length"}
              [] k = "CIRCLE" -> {"center", "radius", "area"}
              [] k = "ARC" -> {"center", "radius", "start_angle", "end_angle"}
              [] k = "TEXT" -> {"text", "insert", "height"}
              [] k = "MTEXT" -> {"text", "insert"}
              [] k \in {"LWPOLYLINE", "POLYLINE"} -> {"points", "closed", "point_count"}
              [] k = "SPLINE" -> {"degree", "control_point_count"}
              [] OTHER -> {"type"}
    IN  (pc = "responded" /\ response.status = 200)
            => /\ Len(els) = Len(origin)
               /\ \A i \in 1..Len(els) :
                      /\ els[i].kind = origin[i]
                      /\ DOMAIN els[i].data = keys(els[i].kind)
                      /\ "type" \in DOMAIN els[i].data
                             => els[i].data["type"] = els[i].kind

C9_Witness ==
    /\ pc = "responded"
    /\ response.status = 200
    /\ raisedAt = <<"field">>
    /\ Len(response.elements) = 1
    /\ response.elements[1].kind = "CIRCLE"
    /\ DOMAIN response.elements[1].data = {"center", "radius", "area"}

\* C10: in a 200 response entity_statistics[k] is the number of entities
\* traversed with tag k, skipped ones included; total_entities is the length
\* of elements; and the sum of entity_statistics exceeds total_entities by
\* the number of skipped entities.
C10_StatisticsCountTraversed ==
    LET stats == response.entity_statistics
        count(k) == IF k \in DOMAIN stats THEN stats[k] ELSE 0
        RECURSIVE sum(_)
        sum(S) == IF S = {} THEN 0
                  ELSE LET k == CHOOSE x \in S : TRUE
                       IN  stats[k] + sum(S \ {k})
    IN  (pc = "responded" /\ response.status = 200)
            => /\ DOMAIN stats \subseteq Tags
               /\ \A k \in Tags : count(k) = seen[k]
               /\ \A k \in DOMAIN stats : stats[k] >= 1
               /\ response.total_entities = Len(response.elements)
               /\ sum(DOMAIN stats) - response.total_entities = skipped
               /\ sum(DOMAIN stats) >= response.total_entities
               /\ (sum(DOMAIN stats) = response.total_entities) <=> (skipped = 0)

C10_Witness ==
    /\ pc = "responded"
    /\ response.status = 200
    /\ skipped = 1
    /\ response.total_entities = 1
    /\ "LINE" \in DOMAIN response.entity_statistics
    /\ response.entity_statistics["LINE"] = 2

====
